---- MODULE Spec2Model ----
(***************************************************************************)
(* Model of grafana-provisioner-reloader: the per-scope Observer           *)
(* (pkg/plugin/observer/observer.go), its construction (observer.New) and  *)
(* the supervisor that starts one Observer per scope (NewApp).             *)
(***************************************************************************)
EXTENDS Integers, Sequences, FiniteSets, TLC

(***************************************************************************)
(* Program constants and bounds                                            *)
(***************************************************************************)

\* make(chan struct{}, 50)
QueueCap == 50

\* undelivered events held by the watcher's event stream
MaxPending == 1

\* undelivered errors held by the watcher's error stream
MaxErrs == 1

\* calls of App.Dispose
MaxCancels == 2

EventKinds == {"write", "other"}

VARIABLES
    \* ---- Observer (observer.go) ----
    wEvents,        \* o.watcher.Events: kinds of the events not yet received by Run
    wErrors,        \* o.watcher.Errors: number of errors not yet received by Run
    streamsClosed,  \* the watcher's Events/Errors channels are closed
    wClosed,        \* o.watcher.Close() was called
    ctxDone,        \* ctx.Done() is closed (cancel was called)
    reloadCh,       \* len(o.reloadCh): number of buffered signals
    chClosed,       \* close(o.reloadCh) was executed
    urlValid,       \* http.NewRequestWithContext accepts o.endpoint
    runPc,          \* Observer.Run: "select" | "send" | "parked" | "done"
    reloadPc,       \* Observer.reload: "sleep" | "drain" | "recv" | "request" | "do" | "done"
    inflight,       \* number of o.httpClient.Do calls that have not returned
    \* ---- history (observation only, never read by a guard) ----
    passCalls,      \* reload calls started since the last tick
    discarded,      \* the current pass discarded at least one extra signal
    sinceTick,      \* a write event arrived since the last tick
    overCap,        \* since the last write event arrived, a pass began with more than
                    \* QueueCap write events outstanding
    callsSinceWrite,\* reload calls started since the last write event arrived (counted to 2)
    owed            \* Run received a write event and no reload call has started since

VARIABLES
    \* ---- observer.New ----
    newWatcherOk,   \* fsnotify.NewWatcher() succeeds
    paths,          \* paths[i]: what watcher.Add answers for the i-th configured path
    newPc,          \* "create" | "add" | "done"
    newIdx,         \* position of the range loop over paths
    watchList,      \* positions of the paths registered with the watcher, in order
    warnings,       \* positions of the paths a warning was logged for, in order
    newErr          \* "none" | "create" | "add": the error New returns

VARIABLES
    \* ---- NewApp / App (supervisor) ----
    setupOk,        \* feature toggle, token, settings and HTTP client are all fine
    cfgURL,         \* config.GrafanaURL
    configured,     \* configured[f]: the path list of config field f is non-empty
    failScope,      \* the config field whose observer.New fails, or "none"
    appPc,          \* "setup" | "loop" | "returned"
    appErr,         \* NewApp returned an error (and no App)
    visited,        \* map keys the range loop has been through
    appObservers,   \* the Observers started with go ob.Run(ctx), in start order
    appCtxDone      \* app.cancel was called

VARIABLES
    \* ---- Observer: outcome of the last call, channel misuse, shutdown calls ----
    lastFailed,     \* the last reload call that returned was logged as an error
    panicked,       \* close of the closed o.reloadCh, or a send on it after its close
    cancels,        \* number of App.Dispose calls (each calls a.cancel())
    lateCancel      \* App.Dispose was called when Run and reload had both returned

VARIABLES
    \* ---- checkResponse ----
    resp,           \* the *http.Response: status, body, and how its body behaves
    respPc,         \* "read" | "close" | "status" | "done"
    resBody,        \* what io.ReadAll returned
    bodyClosed,     \* res.Body.Close() was called
    respErr         \* the error checkResponse returns; kind "none" is nil

VARIABLES
    \* ---- single-watcher App (App.run, App.Dispose, App.CheckHealth) ----
    swEvents,       \* watcher.Events: kinds of the events not yet received by run
    swErrors,       \* watcher.Errors: number of errors not yet received by run
    swStreamsClosed,\* the watcher's Events/Errors channels are closed
    swRunPc,        \* App.run: "select" | "do" | "exited"
    swWatcherClosed,\* watcher.Close() was called (deferred function of run)
    healthStatus,   \* a.healthStatus: "unknown" | "ok" | "error"
    healthWrites,   \* number of writes of a.healthStatus by run
    disposeChClosed,\* close(a.disposeCh) was executed
    disposePc,      \* App.Dispose: "idle" | "recv" | "returned"
    disposeCalls,   \* number of calls of App.Dispose
    healthReply     \* the last answer of CheckHealth: status, and whether run was alive

obsVars == <<wEvents, wErrors, streamsClosed, wClosed, ctxDone, reloadCh, chClosed,
             urlValid, runPc, reloadPc, inflight>>
histVars == <<passCalls, discarded, sinceTick, overCap, callsSinceWrite, owed>>
newVars == <<newWatcherOk, paths, newPc, newIdx, watchList, warnings, newErr>>
appVars == <<setupOk, cfgURL, configured, failScope, appPc, appErr, visited,
             appObservers, appCtxDone>>
safeVars == <<lastFailed, panicked, cancels, lateCancel>>
respVars == <<resp, respPc, resBody, bodyClosed, respErr>>
swVars == <<swEvents, swErrors, swStreamsClosed, swRunPc, swWatcherClosed, healthStatus,
            healthWrites, disposeChClosed, disposePc, disposeCalls, healthReply>>
ctorVars == <<newVars, appVars>>
vars == <<obsVars, histVars, safeVars, newVars, appVars, respVars, swVars>>

(***************************************************************************)
(* State after observer.New and at the start of Observer.Run               *)
(***************************************************************************)
ObserverInit ==
    /\ wEvents = <<>>
    /\ wErrors = 0
    /\ streamsClosed = FALSE
    /\ wClosed = FALSE
    /\ ctxDone = FALSE
    /\ reloadCh = 0
    /\ chClosed = FALSE
    /\ urlValid \in BOOLEAN
    /\ runPc = "select"
    /\ reloadPc = "sleep"
    /\ inflight = 0
    /\ passCalls = 0
    /\ discarded = FALSE
    /\ sinceTick = FALSE
    /\ overCap = FALSE
    /\ callsSinceWrite = 0
    /\ owed = FALSE
    /\ lastFailed = FALSE
    /\ panicked = FALSE
    /\ cancels = 0
    /\ lateCancel = FALSE

(***************************************************************************)
(* Environment: the filesystem watcher and the owner                       *)
(***************************************************************************)

\* fsnotify delivers an event of kind k into watcher.Events
FsEvent(k) ==
    /\ ~streamsClosed
    /\ Len(wEvents) < MaxPending
    /\ wEvents' = Append(wEvents, k)
    /\ IF k = "write"
         THEN /\ overCap' = FALSE
              /\ callsSinceWrite' = 0
              /\ sinceTick' = TRUE
         ELSE UNCHANGED <<overCap, callsSinceWrite, sinceTick>>
    /\ UNCHANGED <<wErrors, streamsClosed, wClosed, ctxDone, reloadCh, chClosed,
                   urlValid, runPc, reloadPc, inflight, passCalls, discarded, owed>>
    /\ UNCHANGED safeVars
    /\ UNCHANGED <<ctorVars, respVars, swVars>>

\* fsnotify delivers an error into watcher.Errors
FsError ==
    /\ ~streamsClosed
    /\ wErrors < MaxErrs
    /\ wErrors' = wErrors + 1
    /\ UNCHANGED <<wEvents, streamsClosed, wClosed, ctxDone, reloadCh, chClosed,
                   urlValid, runPc, reloadPc, inflight, histVars>>
    /\ UNCHANGED safeVars
    /\ UNCHANGED <<ctorVars, respVars, swVars>>

\* the watcher's reader stops on its own: both streams are closed
WatcherStreamsClose ==
    /\ ~streamsClosed
    /\ streamsClosed' = TRUE
    /\ wEvents' = <<>>
    /\ wErrors' = 0
    /\ UNCHANGED <<wClosed, ctxDone, reloadCh, chClosed,
                   urlValid, runPc, reloadPc, inflight, histVars>>
    /\ UNCHANGED safeVars
    /\ UNCHANGED <<ctorVars, respVars, swVars>>

\* App.Dispose: a.cancel(); cancelling a cancelled context does nothing
Cancel ==
    /\ cancels < MaxCancels
    /\ cancels' = cancels + 1
    /\ lateCancel' = (lateCancel \/ (runPc = "done" /\ reloadPc = "done"))
    /\ ctxDone' = TRUE
    /\ UNCHANGED <<wEvents, wErrors, streamsClosed, wClosed, reloadCh, chClosed,
                   urlValid, runPc, reloadPc, inflight, histVars>>
    /\ UNCHANGED <<lastFailed, panicked>>
    /\ UNCHANGED <<ctorVars, respVars, swVars>>

(***************************************************************************)
(* Observer.Run: the event-consuming task                                  *)
(***************************************************************************)

\* case <-ctx.Done(): close the watcher, close(o.reloadCh), return
RunCtxDone ==
    /\ runPc = "select"
    /\ ctxDone
    /\ wClosed' = TRUE
    /\ streamsClosed' = TRUE
    /\ wEvents' = <<>>
    /\ wErrors' = 0
    /\ chClosed' = TRUE
    /\ panicked' = (panicked \/ chClosed)
    /\ runPc' = "done"
    /\ UNCHANGED <<ctxDone, reloadCh, urlValid, reloadPc, inflight, histVars>>
    /\ UNCHANGED <<lastFailed, cancels, lateCancel>>
    /\ UNCHANGED <<ctorVars, respVars, swVars>>

\* RunEvent with the test of event.Has(fsnotify.Write) inverted: a write event is
\* skipped, any other event goes on to the send
RunEventInverted ==
    /\ runPc = "select"
    /\ ~streamsClosed
    /\ wEvents # <<>>
    /\ wEvents' = Tail(wEvents)
    /\ owed' = (owed \/ Head(wEvents) = "write")
    /\ runPc' = IF Head(wEvents) = "write" THEN runPc ELSE "send"
    /\ UNCHANGED <<wErrors, streamsClosed, wClosed, ctxDone, reloadCh, chClosed,
                   urlValid, reloadPc, inflight,
                   passCalls, discarded, sinceTick, overCap, callsSinceWrite>>
    /\ UNCHANGED safeVars
    /\ UNCHANGED <<ctorVars, respVars, swVars>>

\* case event, ok := <-o.watcher.Events with ok: only a write event goes on to the send
RunEvent ==
    /\ runPc = "select"
    /\ ~streamsClosed
    /\ wEvents # <<>>
    /\ wEvents' = Tail(wEvents)
    /\ IF Head(wEvents) = "write"
         THEN runPc' = "send" /\ owed' = TRUE
         ELSE UNCHANGED <<runPc, owed>>
    /\ UNCHANGED <<wErrors, streamsClosed, wClosed, ctxDone, reloadCh, chClosed,
                   urlValid, reloadPc, inflight,
                   passCalls, discarded, sinceTick, overCap, callsSinceWrite>>
    /\ UNCHANGED safeVars
    /\ UNCHANGED <<ctorVars, respVars, swVars>>

\* case err, ok := <-o.watcher.Errors with ok: log and continue
RunError ==
    /\ runPc = "select"
    /\ ~streamsClosed
    /\ wErrors > 0
    /\ wErrors' = wErrors - 1
    /\ UNCHANGED <<wEvents, streamsClosed, wClosed, ctxDone, reloadCh, chClosed,
                   urlValid, runPc, reloadPc, inflight, histVars>>
    /\ UNCHANGED safeVars
    /\ UNCHANGED <<ctorVars, respVars, swVars>>

\* either stream yields !ok: return (nothing is closed on this path)
RunWatcherClosed ==
    /\ runPc = "select"
    /\ streamsClosed
    /\ runPc' = "done"
    /\ UNCHANGED <<wEvents, wErrors, streamsClosed, wClosed, ctxDone, reloadCh, chClosed,
                   urlValid, reloadPc, inflight, histVars>>
    /\ UNCHANGED safeVars
    /\ UNCHANGED <<ctorVars, respVars, swVars>>

\* o.reloadCh <- struct{}{}: buffer the signal, or park on the full channel
\* (a send on a closed channel panics)
RunSend ==
    /\ runPc = "send"
    /\ IF reloadCh < QueueCap
         THEN reloadCh' = reloadCh + 1 /\ runPc' = "select"
         ELSE reloadCh' = reloadCh /\ runPc' = "parked"
    /\ panicked' = (panicked \/ chClosed)
    /\ UNCHANGED <<wEvents, wErrors, streamsClosed, wClosed, ctxDone, chClosed,
                   urlValid, reloadPc, inflight, histVars>>
    /\ UNCHANGED <<lastFailed, cancels, lateCancel>>
    /\ UNCHANGED <<ctorVars, respVars, swVars>>

(***************************************************************************)
(* Observer.reload: the dispatch task                                      *)
(***************************************************************************)

\* write events that arrived and were not yet taken out of the queue: still in
\* the watcher's stream, held by Run at its send, or buffered in o.reloadCh
Outstanding ==
    Cardinality({i \in 1..Len(wEvents) : wEvents[i] = "write"})
      + (IF runPc \in {"send", "parked"} THEN 1 ELSE 0)
      + reloadCh

\* a receive from o.reloadCh that yields a signal: a sender parked on the full
\* channel is released and its signal takes the freed slot
Recv ==
    IF runPc = "parked"
      THEN reloadCh' = reloadCh /\ runPc' = "select"
      ELSE reloadCh' = reloadCh - 1 /\ runPc' = runPc

\* time.Sleep returns; select takes case <-ctx.Done(): return
TickCtxDone ==
    /\ reloadPc = "sleep"
    /\ ctxDone
    /\ reloadPc' = "done"
    /\ passCalls' = 0 /\ discarded' = FALSE /\ sinceTick' = FALSE
    /\ UNCHANGED <<wEvents, wErrors, streamsClosed, wClosed, ctxDone, reloadCh, chClosed,
                   urlValid, runPc, inflight, overCap, callsSinceWrite, owed>>
    /\ UNCHANGED safeVars
    /\ UNCHANGED <<ctorVars, respVars, swVars>>

\* time.Sleep returns; select takes case _, ok := <-o.reloadCh with ok: a pass begins
TickRecv ==
    /\ reloadPc = "sleep"
    /\ reloadCh > 0
    /\ Recv
    /\ reloadPc' = "drain"
    /\ passCalls' = 0 /\ discarded' = FALSE /\ sinceTick' = FALSE
    /\ overCap' = (overCap \/ Outstanding > QueueCap)
    /\ UNCHANGED <<wEvents, wErrors, streamsClosed, wClosed, ctxDone, chClosed,
                   urlValid, inflight, callsSinceWrite, owed>>
    /\ UNCHANGED safeVars
    /\ UNCHANGED <<ctorVars, respVars, swVars>>

\* time.Sleep returns; select receives !ok from the closed, empty channel: return
TickClosed ==
    /\ reloadPc = "sleep"
    /\ chClosed
    /\ reloadCh = 0
    /\ reloadPc' = "done"
    /\ passCalls' = 0 /\ discarded' = FALSE /\ sinceTick' = FALSE
    /\ UNCHANGED <<wEvents, wErrors, streamsClosed, wClosed, ctxDone, reloadCh, chClosed,
                   urlValid, runPc, inflight, overCap, callsSinceWrite, owed>>
    /\ UNCHANGED safeVars
    /\ UNCHANGED <<ctorVars, respVars, swVars>>

\* time.Sleep returns; no case is ready: default, loop
TickDefault ==
    /\ reloadPc = "sleep"
    /\ ~ctxDone
    /\ ~chClosed
    /\ reloadCh = 0
    /\ passCalls' = 0 /\ discarded' = FALSE /\ sinceTick' = FALSE
    /\ UNCHANGED <<wEvents, wErrors, streamsClosed, wClosed, ctxDone, reloadCh, chClosed,
                   urlValid, runPc, reloadPc, inflight, overCap, callsSinceWrite, owed>>
    /\ UNCHANGED safeVars
    /\ UNCHANGED <<ctorVars, respVars, swVars>>

\* DrainLen that enters the body of the loop whatever the length
DrainLenAlways ==
    /\ reloadPc = "drain"
    /\ reloadPc' = "recv"
    /\ UNCHANGED <<wEvents, wErrors, streamsClosed, wClosed, ctxDone, reloadCh, chClosed,
                   urlValid, runPc, inflight, histVars>>
    /\ UNCHANGED safeVars
    /\ UNCHANGED <<ctorVars, respVars, swVars>>

\* for len(o.reloadCh) > 0: the condition is true, enter the body
DrainLen ==
    /\ reloadPc = "drain"
    /\ reloadCh > 0
    /\ reloadPc' = "recv"
    /\ UNCHANGED <<wEvents, wErrors, streamsClosed, wClosed, ctxDone, reloadCh, chClosed,
                   urlValid, runPc, inflight, histVars>>
    /\ UNCHANGED safeVars
    /\ UNCHANGED <<ctorVars, respVars, swVars>>

\* <-o.reloadCh in the body of the drain loop: waits for a signal unless the
\* channel is closed (an empty closed channel answers at once)
DrainOne ==
    /\ reloadPc = "recv"
    /\ reloadCh > 0 \/ chClosed
    /\ IF reloadCh > 0 THEN Recv ELSE UNCHANGED <<reloadCh, runPc>>
    /\ reloadPc' = "drain"
    /\ discarded' = TRUE
    /\ UNCHANGED <<wEvents, wErrors, streamsClosed, wClosed, ctxDone, chClosed,
                   urlValid, inflight,
                   passCalls, sinceTick, overCap, callsSinceWrite, owed>>
    /\ UNCHANGED safeVars
    /\ UNCHANGED <<ctorVars, respVars, swVars>>

\* for len(o.reloadCh) > 0: the condition is false, leave the loop
DrainEnd ==
    /\ reloadPc = "drain"
    /\ reloadCh = 0
    /\ reloadPc' = "request"
    /\ UNCHANGED <<wEvents, wErrors, streamsClosed, wClosed, ctxDone, reloadCh, chClosed,
                   urlValid, runPc, inflight, histVars>>
    /\ UNCHANGED safeVars
    /\ UNCHANGED <<ctorVars, respVars, swVars>>

\* http.NewRequestWithContext fails: log, continue
RequestFail ==
    /\ reloadPc = "request"
    /\ ~urlValid
    /\ reloadPc' = "sleep"
    /\ UNCHANGED <<wEvents, wErrors, streamsClosed, wClosed, ctxDone, reloadCh, chClosed,
                   urlValid, runPc, inflight, histVars>>
    /\ UNCHANGED safeVars
    /\ UNCHANGED <<ctorVars, respVars, swVars>>

\* DoStart with the call handed to a goroutine of its own (go o.httpClient.Do):
\* the loop goes back to sleep while the call is still in flight
DoStartAsync ==
    /\ reloadPc = "request"
    /\ urlValid
    /\ reloadPc' = "sleep"
    /\ inflight' = IF inflight < 2 THEN inflight + 1 ELSE inflight
    /\ passCalls' = passCalls + 1
    /\ owed' = FALSE
    /\ callsSinceWrite' = IF callsSinceWrite < 2 THEN callsSinceWrite + 1 ELSE 2
    /\ UNCHANGED <<wEvents, wErrors, streamsClosed, wClosed, ctxDone, reloadCh, chClosed,
                   urlValid, runPc, discarded, sinceTick, overCap>>
    /\ UNCHANGED safeVars
    /\ UNCHANGED <<ctorVars, respVars, swVars>>

\* http.NewRequestWithContext succeeds; o.httpClient.Do(req) starts
DoStart ==
    /\ reloadPc = "request"
    /\ urlValid
    /\ reloadPc' = "do"
    /\ inflight' = inflight + 1
    /\ passCalls' = passCalls + 1
    /\ owed' = FALSE
    /\ callsSinceWrite' = IF callsSinceWrite < 2 THEN callsSinceWrite + 1 ELSE 2
    /\ UNCHANGED <<wEvents, wErrors, streamsClosed, wClosed, ctxDone, reloadCh, chClosed,
                   urlValid, runPc, discarded, sinceTick, overCap>>
    /\ UNCHANGED safeVars
    /\ UNCHANGED <<ctorVars, respVars, swVars>>

\* DoReturn in a loop that reloads once per queued signal: with a signal left in
\* the queue it takes it and goes on to the next call without sleeping
DoReturnPerSignal ==
    /\ reloadPc = "do"
    /\ inflight' = inflight - 1
    /\ IF reloadCh > 0
         THEN Recv /\ reloadPc' = "request"
         ELSE reloadPc' = "sleep" /\ UNCHANGED <<reloadCh, runPc>>
    /\ UNCHANGED <<wEvents, wErrors, streamsClosed, wClosed, ctxDone, chClosed,
                   urlValid, histVars>>
    /\ UNCHANGED safeVars
    /\ UNCHANGED <<ctorVars, respVars, swVars>>

\* DoReturn in a loop that retries: a failed call puts a signal back in the queue
DoReturnRetry ==
    /\ reloadPc = "do"
    /\ reloadPc' = "sleep"
    /\ inflight' = inflight - 1
    /\ \E failed \in BOOLEAN :
          /\ lastFailed' = failed
          /\ reloadCh' = IF failed /\ reloadCh < QueueCap THEN reloadCh + 1 ELSE reloadCh
    /\ UNCHANGED <<wEvents, wErrors, streamsClosed, wClosed, ctxDone, chClosed,
                   urlValid, runPc, histVars>>
    /\ UNCHANGED <<panicked, cancels, lateCancel>>
    /\ UNCHANGED <<ctorVars, respVars, swVars>>

\* o.httpClient.Do returns.  An error of Do, or an error of checkResponse on the
\* response, is logged; either way the loop goes on
DoReturn ==
    /\ reloadPc = "do"
    /\ reloadPc' = "sleep"
    /\ inflight' = inflight - 1
    /\ \E failed \in BOOLEAN : lastFailed' = failed
    /\ UNCHANGED <<wEvents, wErrors, streamsClosed, wClosed, ctxDone, reloadCh, chClosed,
                   urlValid, runPc, histVars>>
    /\ UNCHANGED <<panicked, cancels, lateCancel>>
    /\ UNCHANGED <<ctorVars, respVars, swVars>>

(***************************************************************************)
(* observer.New: create the watcher, register the paths                    *)
(***************************************************************************)

\* longest configured path list
MaxPaths == 3

\* answers of watcher.Add: registered, os.ErrNotExist, any other error
AddResults == {"ok", "notexist", "denied"}

PathLists == UNION {[1..n -> AddResults] : n \in 0..MaxPaths}

\* New is called with some path list
NewInit ==
    /\ newWatcherOk \in BOOLEAN
    /\ paths \in PathLists
    /\ newPc = "create"
    /\ newIdx = 1
    /\ watchList = <<>>
    /\ warnings = <<>>
    /\ newErr = "none"

\* no call of New is under way
NewIdle ==
    /\ newWatcherOk = TRUE
    /\ paths = <<>>
    /\ newPc = "done"
    /\ newIdx = 1
    /\ watchList = <<>>
    /\ warnings = <<>>
    /\ newErr = "none"

\* watcher, err := fsnotify.NewWatcher(); an error is returned at once
NewCreateWatcher ==
    /\ newPc = "create"
    /\ IF newWatcherOk
         THEN newPc' = "add" /\ newErr' = newErr
         ELSE newPc' = "done" /\ newErr' = "create"
    /\ UNCHANGED <<newWatcherOk, paths, newIdx, watchList, warnings>>
    /\ UNCHANGED <<obsVars, histVars, safeVars, appVars, respVars, swVars>>

\* NewAddPath without the errors.Is(err, os.ErrNotExist) branch: every failure of
\* watcher.Add returns an error
NewAddPathStrict ==
    /\ newPc = "add"
    /\ newIdx <= Len(paths)
    /\ IF paths[newIdx] = "ok"
         THEN /\ watchList' = Append(watchList, newIdx)
              /\ newIdx' = newIdx + 1
              /\ UNCHANGED <<warnings, newPc, newErr>>
         ELSE /\ newPc' = "done"
              /\ newErr' = "add"
              /\ UNCHANGED <<watchList, warnings, newIdx>>
    /\ UNCHANGED <<newWatcherOk, paths>>
    /\ UNCHANGED <<obsVars, histVars, safeVars, appVars, respVars, swVars>>

\* one iteration of for _, path := range paths: watcher.Add(path)
NewAddPath ==
    /\ newPc = "add"
    /\ newIdx <= Len(paths)
    /\ CASE paths[newIdx] = "ok" ->
              /\ watchList' = Append(watchList, newIdx)
              /\ newIdx' = newIdx + 1
              /\ UNCHANGED <<warnings, newPc, newErr>>
         [] paths[newIdx] = "notexist" ->
              /\ warnings' = Append(warnings, newIdx)
              /\ newIdx' = newIdx + 1
              /\ UNCHANGED <<watchList, newPc, newErr>>
         [] OTHER ->
              /\ newPc' = "done"
              /\ newErr' = "add"
              /\ UNCHANGED <<watchList, warnings, newIdx>>
    /\ UNCHANGED <<newWatcherOk, paths>>
    /\ UNCHANGED <<obsVars, histVars, safeVars, appVars, respVars, swVars>>

\* the loop is over: return &Observer{...}, nil
NewReturn ==
    /\ newPc = "add"
    /\ newIdx > Len(paths)
    /\ newPc' = "done"
    /\ UNCHANGED <<newWatcherOk, paths, newIdx, watchList, warnings, newErr>>
    /\ UNCHANGED <<obsVars, histVars, safeVars, appVars, respVars, swVars>>

(***************************************************************************)
(* NewApp, App.Dispose: one Observer per configured scope                  *)
(***************************************************************************)

\* the config fields <X>FileWatcher
ConfigFields == {"dashboards", "datasources", "plugins", "accesscontrol", "alerting"}

\* MapKey with every key spelled like its config field
MapKeyFieldName(f) == f

\* the key under which NewApp's map holds the path list of a config field
MapKey(f) == IF f = "accesscontrol" THEN "access-control" ELSE f

\* URLs are sequences of pieces; "/" is a piece of its own
DefaultURL == <<"http://localhost:3000">>

ConfigURLs == {<<>>, <<"http://grafana">>, <<"http://grafana", "/">>,
               <<"http://grafana", "/", "/">>}

\* strings.TrimSuffix(s, "/")
TrimSuffix(s) ==
    IF Len(s) > 0 /\ s[Len(s)] = "/" THEN SubSeq(s, 1, Len(s) - 1) ELSE s

\* grafanaURL := "http://localhost:3000"; if config.GrafanaURL != "" { ... }
GrafanaURL(url) == IF url # <<>> THEN TrimSuffix(url) ELSE DefaultURL

\* fmt.Sprintf("%s/api/admin/provisioning/%s/reload", grafanaURL, name)
Endpoint(base, name) == base \o <<"/api/admin/provisioning/", name, "/reload">>

\* NewApp is called with some settings
AppInit ==
    /\ setupOk \in BOOLEAN
    /\ cfgURL \in ConfigURLs
    /\ configured \in [ConfigFields -> BOOLEAN]
    /\ failScope \in ConfigFields \cup {"none"}
    /\ appPc = "setup"
    /\ appErr = FALSE
    /\ visited = {}
    /\ appObservers = <<>>
    /\ appCtxDone = FALSE

\* no call of NewApp is under way
AppIdle ==
    /\ setupOk = TRUE
    /\ cfgURL = <<>>
    /\ configured = [f \in ConfigFields |-> FALSE]
    /\ failScope = "none"
    /\ appPc = "returned"
    /\ appErr = FALSE
    /\ visited = ConfigFields
    /\ appObservers = <<>>
    /\ appCtxDone = FALSE

\* feature toggle, service account token, settings, HTTP client: any failure
\* returns an error before an Observer exists; then context.WithCancel
AppSetup ==
    /\ appPc = "setup"
    /\ IF setupOk
         THEN appPc' = "loop" /\ appErr' = FALSE
         ELSE appPc' = "returned" /\ appErr' = TRUE
    /\ UNCHANGED <<setupOk, cfgURL, configured, failScope, visited, appObservers, appCtxDone>>
    /\ UNCHANGED <<obsVars, histVars, safeVars, newVars, respVars, swVars>>

\* one iteration of the range loop over the map, in the order Go happens to pick:
\* a non-empty path list gets an Observer, started at once; a failing
\* observer.New returns the error
AppLoopStep(f) ==
    /\ appPc = "loop"
    /\ f \in ConfigFields \ visited
    /\ visited' = visited \cup {f}
    /\ IF configured[f]
         THEN IF f = failScope
                THEN /\ appPc' = "returned"
                     /\ appErr' = TRUE
                     /\ UNCHANGED appObservers
                ELSE /\ appObservers' = Append(appObservers,
                            [field |-> f,
                             logName |-> "accesscontrol",
                             endpoint |-> Endpoint(GrafanaURL(cfgURL), MapKey(f))])
                     /\ UNCHANGED <<appPc, appErr>>
         ELSE UNCHANGED <<appPc, appErr, appObservers>>
    /\ UNCHANGED <<setupOk, cfgURL, configured, failScope, appCtxDone>>
    /\ UNCHANGED <<obsVars, histVars, safeVars, newVars, respVars, swVars>>

\* the loop is over: return &app, nil
AppReturn ==
    /\ appPc = "loop"
    /\ visited = ConfigFields
    /\ appPc' = "returned"
    /\ UNCHANGED <<setupOk, cfgURL, configured, failScope, appErr, visited,
                   appObservers, appCtxDone>>
    /\ UNCHANGED <<obsVars, histVars, safeVars, newVars, respVars, swVars>>

\* App.Dispose on the App that NewApp returned: a.cancel()
AppDispose ==
    /\ appPc = "returned"
    /\ ~appErr
    /\ ~appCtxDone
    /\ appCtxDone' = TRUE
    /\ UNCHANGED <<setupOk, cfgURL, configured, failScope, appPc, appErr, visited,
                   appObservers>>
    /\ UNCHANGED <<obsVars, histVars, safeVars, newVars, respVars, swVars>>

\* the Observers started by NewApp whose context is not cancelled
RunningObservers == IF appCtxDone THEN <<>> ELSE appObservers

(***************************************************************************)
(* checkResponse                                                           *)
(***************************************************************************)

\* longest response body
MaxBody == 1

\* http.StatusOK
StatusOK == 200

StatusCodes == {StatusOK, 204, 404, 500, 503}

Bodies == UNION {[1..n -> {"a", "b"}] : n \in 0..MaxBody}

\* a response: its status, its body, whether io.ReadAll and Body.Close succeed on it
Responses ==
    [status : StatusCodes, body : Bodies, readOk : BOOLEAN, closeOk : BOOLEAN]

NoErr == [kind |-> "none", code |-> 0, body |-> <<>>]

\* checkResponse is called with some response
RespInit ==
    /\ resp \in Responses
    /\ respPc = "read"
    /\ resBody = <<>>
    /\ bodyClosed = FALSE
    /\ respErr = NoErr

\* no call of checkResponse is under way
RespIdle ==
    /\ resp = [status |-> StatusOK, body |-> <<>>, readOk |-> TRUE, closeOk |-> TRUE]
    /\ respPc = "done"
    /\ resBody = <<>>
    /\ bodyClosed = TRUE
    /\ respErr = NoErr

\* resBody, err := io.ReadAll(res.Body); an error is returned at once
CheckRead ==
    /\ respPc = "read"
    /\ IF resp.readOk
         THEN /\ resBody' = resp.body
              /\ respPc' = "close"
              /\ UNCHANGED respErr
         ELSE /\ respErr' = [kind |-> "read", code |-> 0, body |-> <<>>]
              /\ respPc' = "done"
              /\ UNCHANGED resBody
    /\ UNCHANGED <<resp, bodyClosed>>
    /\ UNCHANGED <<obsVars, histVars, safeVars, newVars, appVars, swVars>>

\* err = res.Body.Close(); an error is returned
CheckClose ==
    /\ respPc = "close"
    /\ bodyClosed' = TRUE
    /\ IF resp.closeOk
         THEN /\ respPc' = "status"
              /\ UNCHANGED respErr
         ELSE /\ respErr' = [kind |-> "close", code |-> 0, body |-> <<>>]
              /\ respPc' = "done"
    /\ UNCHANGED <<resp, resBody>>
    /\ UNCHANGED <<obsVars, histVars, safeVars, newVars, appVars, swVars>>

\* CheckStatus that accepts every status below 300
CheckStatusAny2xx ==
    /\ respPc = "status"
    /\ respErr' = IF resp.status >= 300
                    THEN [kind |-> "status", code |-> resp.status, body |-> resBody]
                    ELSE NoErr
    /\ respPc' = "done"
    /\ UNCHANGED <<resp, resBody, bodyClosed>>
    /\ UNCHANGED <<obsVars, histVars, safeVars, newVars, appVars, swVars>>

\* if res.StatusCode != http.StatusOK: an error with the status code and the body
\* that was read; else nil
CheckStatus ==
    /\ respPc = "status"
    /\ respErr' = IF resp.status # StatusOK
                    THEN [kind |-> "status", code |-> resp.status, body |-> resBody]
                    ELSE NoErr
    /\ respPc' = "done"
    /\ UNCHANGED <<resp, resBody, bodyClosed>>
    /\ UNCHANGED <<obsVars, histVars, safeVars, newVars, appVars, swVars>>

(***************************************************************************)
(* Single-watcher App: App.run, App.Dispose, App.CheckHealth               *)
(***************************************************************************)

\* most events waiting in watcher.Events of the single watcher
MaxSwPending == 2

\* NewApp returned the App and started go app.run(watcher).  a.healthStatus was
\* never assigned: it holds the zero value of backend.HealthStatus, which is
\* HealthStatusUnknown
SwInit ==
    /\ swEvents = <<>>
    /\ swErrors = 0
    /\ swStreamsClosed = FALSE
    /\ swRunPc = "select"
    /\ swWatcherClosed = FALSE
    /\ healthStatus = "unknown"
    /\ healthWrites = 0
    /\ disposeChClosed = FALSE
    /\ disposePc = "idle"
    /\ disposeCalls = 0
    /\ healthReply = [status |-> "none", alive |-> TRUE]

\* fsnotify delivers an event of kind k into watcher.Events
SwFsEvent(k) ==
    /\ ~swStreamsClosed
    /\ Len(swEvents) < MaxSwPending
    /\ swEvents' = Append(swEvents, k)
    /\ UNCHANGED <<swErrors, swStreamsClosed, swRunPc, swWatcherClosed, healthStatus,
                   healthWrites, disposeChClosed, disposePc, disposeCalls, healthReply>>
    /\ UNCHANGED <<obsVars, histVars, safeVars, newVars, appVars, respVars>>

\* fsnotify delivers an error into watcher.Errors
SwFsError ==
    /\ ~swStreamsClosed
    /\ swErrors < MaxErrs
    /\ swErrors' = swErrors + 1
    /\ UNCHANGED <<swEvents, swStreamsClosed, swRunPc, swWatcherClosed, healthStatus,
                   healthWrites, disposeChClosed, disposePc, disposeCalls, healthReply>>
    /\ UNCHANGED <<obsVars, histVars, safeVars, newVars, appVars, respVars>>

\* the watcher's reader stops on its own: both streams are closed
SwStreamsClose ==
    /\ ~swStreamsClosed
    /\ swStreamsClosed' = TRUE
    /\ swEvents' = <<>>
    /\ swErrors' = 0
    /\ UNCHANGED <<swRunPc, swWatcherClosed, healthStatus,
                   healthWrites, disposeChClosed, disposePc, disposeCalls, healthReply>>
    /\ UNCHANGED <<obsVars, histVars, safeVars, newVars, appVars, respVars>>

\* case event, ok := <-watcher.Events with ok: a write event builds the request
\* (context.WithTimeout of 10 s) and starts a.httpClient.Do; a request that cannot
\* be built, or any other event, continues
SwRunEvent ==
    /\ swRunPc = "select"
    /\ ~swStreamsClosed
    /\ swEvents # <<>>
    /\ swEvents' = Tail(swEvents)
    /\ \E reqOk \in BOOLEAN :
          swRunPc' = IF Head(swEvents) = "write" /\ reqOk THEN "do" ELSE "select"
    /\ UNCHANGED <<swErrors, swStreamsClosed, swWatcherClosed, healthStatus,
                   healthWrites, disposeChClosed, disposePc, disposeCalls, healthReply>>
    /\ UNCHANGED <<obsVars, histVars, safeVars, newVars, appVars, respVars>>

\* a.httpClient.Do returns, at the latest when the timeout expires; the result is
\* checked and logged; loop
SwRunDoReturn ==
    /\ swRunPc = "do"
    /\ swRunPc' = "select"
    /\ UNCHANGED <<swEvents, swErrors, swStreamsClosed, swWatcherClosed, healthStatus,
                   healthWrites, disposeChClosed, disposePc, disposeCalls, healthReply>>
    /\ UNCHANGED <<obsVars, histVars, safeVars, newVars, appVars, respVars>>

\* case err, ok := <-watcher.Errors with ok: log and continue
SwRunError ==
    /\ swRunPc = "select"
    /\ ~swStreamsClosed
    /\ swErrors > 0
    /\ swErrors' = swErrors - 1
    /\ UNCHANGED <<swEvents, swStreamsClosed, swRunPc, swWatcherClosed, healthStatus,
                   healthWrites, disposeChClosed, disposePc, disposeCalls, healthReply>>
    /\ UNCHANGED <<obsVars, histVars, safeVars, newVars, appVars, respVars>>

\* either stream yields !ok: return, which runs the deferred function
SwRunReturn ==
    /\ swRunPc = "select"
    /\ swStreamsClosed
    /\ swRunPc' = "deferred"
    /\ UNCHANGED <<swEvents, swErrors, swStreamsClosed, swWatcherClosed, healthStatus,
                   healthWrites, disposeChClosed, disposePc, disposeCalls, healthReply>>
    /\ UNCHANGED <<obsVars, histVars, safeVars, newVars, appVars, respVars>>

\* deferred: watcher.Close(); Lock; a.healthStatus = HealthStatusError; Unlock
SwRunDeferStatus ==
    /\ swRunPc = "deferred"
    /\ swRunPc' = "closing"
    /\ swWatcherClosed' = TRUE
    /\ healthStatus' = "error"
    /\ healthWrites' = healthWrites + 1
    /\ UNCHANGED <<swEvents, swErrors, swStreamsClosed, disposeChClosed, disposePc,
                   disposeCalls, healthReply>>
    /\ UNCHANGED <<obsVars, histVars, safeVars, newVars, appVars, respVars>>

\* SwRunDeferClose that leaves a.disposeCh open
SwRunDeferNoClose ==
    /\ swRunPc = "closing"
    /\ swRunPc' = "exited"
    /\ UNCHANGED <<swEvents, swErrors, swStreamsClosed, swWatcherClosed, healthStatus,
                   healthWrites, disposeChClosed, disposePc, disposeCalls, healthReply>>
    /\ UNCHANGED <<obsVars, histVars, safeVars, newVars, appVars, respVars>>

\* deferred: close(a.disposeCh); run has exited
SwRunDeferClose ==
    /\ swRunPc = "closing"
    /\ swRunPc' = "exited"
    /\ disposeChClosed' = TRUE
    /\ UNCHANGED <<swEvents, swErrors, swStreamsClosed, swWatcherClosed, healthStatus,
                   healthWrites, disposePc, disposeCalls, healthReply>>
    /\ UNCHANGED <<obsVars, histVars, safeVars, newVars, appVars, respVars>>

\* App.Dispose is called and reaches <-a.disposeCh
SwDisposeCall ==
    /\ disposePc \in {"idle", "returned"}
    /\ disposeCalls < MaxCancels
    /\ disposeCalls' = disposeCalls + 1
    /\ disposePc' = "recv"
    /\ UNCHANGED <<swEvents, swErrors, swStreamsClosed, swRunPc, swWatcherClosed,
                   healthStatus, healthWrites, disposeChClosed, healthReply>>
    /\ UNCHANGED <<obsVars, histVars, safeVars, newVars, appVars, respVars>>

\* _, ok := <-a.disposeCh answers !ok on the closed channel: return.  (The
\* channel is unbuffered and nothing ever sends on it, so the receive has no
\* other way to complete; the statements after it are never reached.)
SwDisposeClosed ==
    /\ disposePc = "recv"
    /\ disposeChClosed
    /\ disposePc' = "returned"
    /\ UNCHANGED <<swEvents, swErrors, swStreamsClosed, swRunPc, swWatcherClosed,
                   healthStatus, healthWrites, disposeChClosed, disposeCalls, healthReply>>
    /\ UNCHANGED <<obsVars, histVars, safeVars, newVars, appVars, respVars>>

\* App.CheckHealth: read a.healthStatus under the read lock
SwCheckHealth ==
    /\ healthReply' = [status |-> healthStatus, alive |-> (swRunPc \in {"select", "do"})]
    /\ UNCHANGED <<swEvents, swErrors, swStreamsClosed, swRunPc, swWatcherClosed,
                   healthStatus, healthWrites, disposeChClosed, disposePc, disposeCalls>>
    /\ UNCHANGED <<obsVars, histVars, safeVars, newVars, appVars, respVars>>

(***************************************************************************)
(* Specifications                                                          *)
(***************************************************************************)
\* an Observer that was constructed and whose Run was started
Init == ObserverInit /\ NewIdle /\ AppIdle /\ RespIdle /\ SwInit

Tick == TickCtxDone \/ TickRecv \/ TickClosed \/ TickDefault

\* Spec: every interleaving of the two tasks and the environment
Next ==
    \/ \E k \in EventKinds : FsEvent(k)
    \/ FsError
    \/ WatcherStreamsClose
    \/ Cancel
    \/ RunCtxDone
    \/ RunEvent
    \/ RunError
    \/ RunWatcherClosed
    \/ RunSend
    \/ TickCtxDone
    \/ TickRecv
    \/ TickClosed
    \/ TickDefault
    \/ DrainLen
    \/ DrainOne
    \/ DrainEnd
    \/ RequestFail
    \/ DoStart
    \/ DoReturn

Spec == Init /\ [][Next]_vars

\* FairSpec: the Go scheduler runs every runnable goroutine, time.Sleep returns,
\* select picks at random among its ready cases (so a case that is ready again and
\* again is eventually taken), and the reload call returns.  The environment
\* (filesystem, owner) is under no obligation.
Fairness ==
    /\ SF_vars(RunCtxDone)
    /\ WF_vars(RunEvent)
    /\ WF_vars(RunError)
    /\ WF_vars(RunWatcherClosed)
    /\ WF_vars(RunSend)
    /\ WF_vars(Tick)
    /\ WF_vars(DrainLen \/ DrainOne \/ DrainEnd)
    /\ WF_vars(RequestFail)
    /\ WF_vars(DoStart)
    /\ WF_vars(DoReturn)

FairSpec == Init /\ [][Next]_vars /\ Fairness

\* FairSpecNoAnswer: the same scheduling, and an endpoint that need not answer.
\* The request is built on context.Background(), so nothing in reload ends a
\* call that the endpoint leaves open.
SchedFairness ==
    /\ SF_vars(RunCtxDone)
    /\ WF_vars(RunEvent)
    /\ WF_vars(RunError)
    /\ WF_vars(RunWatcherClosed)
    /\ WF_vars(RunSend)
    /\ WF_vars(Tick)
    /\ WF_vars(DrainLen \/ DrainOne \/ DrainEnd)
    /\ WF_vars(RequestFail)
    /\ WF_vars(DoStart)

FairSpecNoAnswer == Init /\ [][Next]_vars /\ SchedFairness

\* SpecPrompt: the 30 s sleep is long against the handling of one event, so a tick
\* finds Run with nothing left that it could do on its own: waiting in its select
\* with no event, no error and no cancellation to take, parked on the full queue,
\* or returned.  Everything after the tick interleaves freely.
RunQuiescent ==
    \/ runPc \in {"parked", "done"}
    \/ /\ runPc = "select"
       /\ ~ctxDone
       /\ ~streamsClosed
       /\ wEvents = <<>>
       /\ wErrors = 0

NextPrompt ==
    \/ \E k \in EventKinds : FsEvent(k)
    \/ FsError
    \/ WatcherStreamsClose
    \/ Cancel
    \/ RunCtxDone
    \/ RunEvent
    \/ RunError
    \/ RunWatcherClosed
    \/ RunSend
    \/ (RunQuiescent /\ TickCtxDone)
    \/ (RunQuiescent /\ TickRecv)
    \/ (RunQuiescent /\ TickClosed)
    \/ (RunQuiescent /\ TickDefault)
    \/ DrainLen
    \/ DrainOne
    \/ DrainEnd
    \/ RequestFail
    \/ DoStart
    \/ DoReturn

SpecPrompt == Init /\ [][NextPrompt]_vars

\* SpecNew: one call of observer.New
ObserverIdle ==
    /\ ObserverInit
    /\ urlValid = TRUE

InitNew == ObserverIdle /\ NewInit /\ AppIdle /\ RespIdle /\ SwInit

NextNew ==
    \/ NewCreateWatcher
    \/ NewAddPath
    \/ NewReturn

SpecNew == InitNew /\ [][NextNew]_vars

\* SpecApp: one call of NewApp, and Dispose on the App it returns
InitApp == ObserverIdle /\ NewIdle /\ AppInit /\ RespIdle /\ SwInit

NextApp ==
    \/ AppSetup
    \/ \E f \in ConfigFields : AppLoopStep(f)
    \/ AppReturn
    \/ AppDispose

SpecApp == InitApp /\ [][NextApp]_vars

\* SpecResp: one call of checkResponse
InitResp == ObserverIdle /\ NewIdle /\ AppIdle /\ RespInit /\ SwInit

NextResp ==
    \/ CheckRead
    \/ CheckClose
    \/ CheckStatus

SpecResp == InitResp /\ [][NextResp]_vars

\* SpecSW: the single-watcher App after NewApp
InitSW == ObserverIdle /\ NewIdle /\ AppIdle /\ RespIdle /\ SwInit

NextSW ==
    \/ \E k \in EventKinds : SwFsEvent(k)
    \/ SwFsError
    \/ SwStreamsClose
    \/ SwRunEvent
    \/ SwRunDoReturn
    \/ SwRunError
    \/ SwRunReturn
    \/ SwRunDeferStatus
    \/ SwRunDeferClose
    \/ SwDisposeCall
    \/ SwDisposeClosed
    \/ SwCheckHealth

SpecSW == InitSW /\ [][NextSW]_vars

\* FairSpecSW: the scheduler runs run and Dispose whenever they can take a step,
\* and the call of run returns (its request has a 10 s timeout).  The
\* filesystem is under no obligation.
FairnessSW ==
    /\ WF_vars(SwRunEvent)
    /\ WF_vars(SwRunDoReturn)
    /\ WF_vars(SwRunError)
    /\ WF_vars(SwRunReturn)
    /\ WF_vars(SwRunDeferStatus)
    /\ WF_vars(SwRunDeferClose)
    /\ WF_vars(SwDisposeClosed)

FairSpecSW == InitSW /\ [][NextSW]_vars /\ FairnessSW

\* SpecShutdown: shutdown of both variants, with no filesystem activity on the
\* side of the per-scope Observer
NextShutdown ==
    \/ Cancel
    \/ WatcherStreamsClose
    \/ RunCtxDone
    \/ RunWatcherClosed
    \/ TickCtxDone
    \/ TickClosed
    \/ TickDefault
    \/ \E k \in EventKinds : SwFsEvent(k)
    \/ SwFsError
    \/ SwStreamsClose
    \/ SwRunEvent
    \/ SwRunDoReturn
    \/ SwRunError
    \/ SwRunReturn
    \/ SwRunDeferStatus
    \/ SwRunDeferClose
    \/ SwDisposeCall
    \/ SwDisposeClosed
    \/ SwCheckHealth

SpecShutdown == InitSW /\ [][NextShutdown]_vars

TypeOK ==
    /\ wEvents \in Seq(EventKinds) /\ Len(wEvents) <= MaxPending
    /\ wErrors \in 0..MaxErrs
    /\ reloadCh \in 0..QueueCap
    /\ runPc \in {"select", "send", "parked", "done"}
    /\ reloadPc \in {"sleep", "drain", "recv", "request", "do", "done"}
    /\ inflight \in 0..1
    /\ cancels \in 0..MaxCancels
    /\ callsSinceWrite \in 0..2

(***************************************************************************)
(* Claims                                                                  *)
(***************************************************************************)

\* C1 (coalescing): whatever number of signals Run enqueued before a tick, the
\* dispatch pass that follows the tick starts at most one reload HTTP call.
C1_Coalescing == passCalls <= 1

\* a pass that discarded extra signals and then started its single call
C1_Witness == reloadPc = "do" /\ discarded /\ passCalls = 1

\* C2 (enqueue never blocks): Run is never left waiting on the pending queue;
\* on a full queue the send returns at once and the signal is dropped.
C2_EnqueueNeverBlocks == runPc # "parked"

\* C3 (drop-on-full): when more than QueueCap write events arrived before a
\* dispatch pass and no further write event arrives, that burst leads to exactly
\* one reload call, never to a second one in a later pass.
C3_DropOnFull == overCap => callsSinceWrite <= 1

C5_NoOpTicks ==
    [][ /\ (reloadPc = "sleep" /\ reloadPc' = "drain") => sinceTick
        /\ (reloadPc = "sleep" /\ reloadCh = 0 /\ ~ctxDone)
             => (reloadPc' = "sleep" /\ inflight' = inflight /\ reloadCh' >= reloadCh)
      ]_vars

\* C6 (rate bound): two reload calls of one Observer are never in flight
\* together, and a reload call starts only when no other call started since the
\* last tick.
C6_RateBound ==
    /\ [](inflight <= 1)
    /\ [][inflight' > inflight => (inflight = 0 /\ passCalls = 0)]_vars

\* a second reload call in flight after an earlier one, no write event in between
C6_Witness == reloadPc = "do" /\ inflight = 1 /\ callsSinceWrite = 2

\* C7 (cancellation): after cancellation no task stays blocked forever; in
\* particular, once the dispatch task has returned, Run is not left parked on
\* the full queue, where nothing can release it.
C7_CancelStopsBothTasks == ~(ctxDone /\ reloadPc = "done" /\ runPc = "parked")

\* C8 (no partial start): when NewApp returns an error, no Observer is left
\* running: none was started, or those started were cancelled.
C8_NoPartialStart ==
    (appPc = "returned" /\ appErr) => RunningObservers = <<>>

ObserversOf(f) == SelectSeq(appObservers, LAMBDA o : o.field = f)

\* the URL segment the claim gives a config field: the field's own name
ClaimedSegment(f) == f

\* C9 (one Observer per non-empty scope), as claimed: when NewApp returns an App,
\* every config field with a non-empty path list has exactly one Observer, every
\* other field none, and the endpoint is <base>/api/admin/provisioning/<scope>/reload
\* with <scope> among dashboards, datasources, plugins, accesscontrol, alerting.
C9_OnePerScope ==
    (appPc = "returned" /\ ~appErr) =>
        \A f \in ConfigFields :
            /\ Len(ObserversOf(f)) = (IF configured[f] THEN 1 ELSE 0)
            /\ \A i \in 1..Len(ObserversOf(f)) :
                  ObserversOf(f)[i].endpoint
                    = Endpoint(GrafanaURL(cfgURL), ClaimedSegment(f))

\* C9, amended: the same with the scope segment of the access-control field being
\* "access-control".  The base carries no "/" before "/api" unless the configured
\* URL ended in more than one.
C9_OnePerScopeAccessControl ==
    (appPc = "returned" /\ ~appErr) =>
        \A f \in ConfigFields :
            /\ Len(ObserversOf(f)) = (IF configured[f] THEN 1 ELSE 0)
            /\ \A i \in 1..Len(ObserversOf(f)) :
                  LET e == ObserversOf(f)[i].endpoint
                      base == SubSeq(e, 1, Len(e) - 3)
                  IN /\ Len(e) >= 4
                     /\ SubSeq(e, Len(e) - 2, Len(e))
                          = <<"/api/admin/provisioning/",
                              (IF f = "accesscontrol" THEN "access-control" ELSE f),
                              "/reload">>
                     /\ base = (IF cfgURL = <<>> THEN <<"http://localhost:3000">>
                                ELSE IF cfgURL[Len(cfgURL)] = "/"
                                       THEN SubSeq(cfgURL, 1, Len(cfgURL) - 1)
                                       ELSE cfgURL)

\* NewApp returned an App with an Observer for access control and one other
\* scope, for a configured URL with a trailing "/"
C9_Witness ==
    /\ appPc = "returned" /\ ~appErr
    /\ configured["accesscontrol"] /\ configured["dashboards"] /\ ~configured["plugins"]
    /\ Len(appObservers) >= 2
    /\ cfgURL = <<"http://grafana", "/">>

ExistingPaths == SelectSeq([i \in 1..Len(paths) |-> i], LAMBDA i : paths[i] = "ok")
MissingPaths == SelectSeq([i \in 1..Len(paths) |-> i], LAMBDA i : paths[i] = "notexist")

\* C10 (missing-path tolerance): with a watcher at hand, New succeeds whenever no
\* path fails for a reason other than not existing; it then watches exactly the
\* existing paths, in order, and has logged one warning per missing path.  Any
\* other registration failure makes New return an error.
C10_MissingPathTolerance ==
    (newPc = "done" /\ newWatcherOk) =>
        IF \A i \in 1..Len(paths) : paths[i] \in {"ok", "notexist"}
          THEN /\ newErr = "none"
               /\ watchList = ExistingPaths
               /\ warnings = MissingPaths
          ELSE newErr = "add"

\* New succeeded on one missing path between two existing paths
C10_Witness ==
    /\ newPc = "done" /\ newErr = "none"
    /\ paths = <<"ok", "notexist", "ok">>
    /\ watchList = <<1, 3>>
    /\ Len(warnings) = 1

\* C11: checkResponse returns success for a response with status 200 and any
\* body, and for every other status a failure that carries that status code and
\* the response body verbatim.
C11_StatusDecides ==
    respPc = "done" =>
        IF resp.status = StatusOK
          THEN respErr = NoErr
          ELSE respErr = [kind |-> "status", code |-> resp.status, body |-> resp.body]

\* C11, amended: the status decides for a response whose body is read and closed
\* without error; a body that cannot be read, or cannot be closed, is a failure
\* that names neither status nor body, whatever the status.
C11_StatusDecidesReadableBody ==
    respPc = "done" =>
        /\ (resp.readOk /\ resp.closeOk) =>
               IF resp.status = StatusOK
                 THEN respErr = NoErr
                 ELSE respErr = [kind |-> "status", code |-> resp.status,
                                 body |-> resp.body]
        /\ ~resp.readOk => respErr.kind = "read"
        /\ (resp.readOk /\ ~resp.closeOk) => respErr.kind = "close"

\* checkResponse has answered a 204 with a body, read and closed without error
C11_Witness ==
    /\ respPc = "done"
    /\ resp.status = 204
    /\ resp.body = <<"b">>
    /\ resp.readOk /\ resp.closeOk
    /\ respErr.kind = "status"

\* C12: Dispose of the single-watcher App, called while App.run is running,
\* always returns.
C12_DisposeReturns == (disposePc = "recv") ~> (disposePc = "returned")

\* C13: a Dispose after the loops have stopped neither blocks nor panics and
\* changes no state.  Per scope: the cancel function is called again and nothing
\* but the count of calls changes, the queue is never closed twice.  Single
\* watcher: the receive finds the dispose channel closed and Dispose returns
\* leaving everything as it was.
C13_IdempotentShutdown ==
    /\ [](~panicked)
    /\ [][(cancels' > cancels /\ runPc = "done" /\ reloadPc = "done")
            => UNCHANGED <<obsVars, histVars, lastFailed, panicked>>]_vars
    /\ []((disposePc = "recv" /\ swRunPc = "exited") => disposeChClosed)
    /\ [][(disposePc = "recv" /\ disposePc' = "returned")
            => UNCHANGED <<swEvents, swErrors, swStreamsClosed, swRunPc,
                           swWatcherClosed, healthStatus, healthWrites,
                           disposeChClosed>>]_vars

\* both variants were disposed a second time after their loops had stopped
C13_Witness ==
    /\ lateCancel /\ cancels = 2
    /\ runPc = "done" /\ reloadPc = "done" /\ chClosed
    /\ swRunPc = "exited" /\ disposeCalls = 2 /\ disposePc = "returned"

\* C14: CheckHealth answers OK while App.run is running and ERROR once it has
\* exited; the loop writes the status exactly once; the status never goes back
\* from ERROR to OK.
C14_HealthReflectsLoop ==
    /\ healthReply.status # "none" =>
           healthReply.status = IF healthReply.alive THEN "ok" ELSE "error"
    /\ healthWrites <= 1
    /\ swRunPc = "exited" => healthStatus = "error"

\* C15: whenever Observer.Run has returned, the watcher is closed and the queue
\* is closed.
C15_ExitClosesBoth == runPc = "done" => (wClosed /\ chClosed)

\* C16: after cancellation fired no coalescing pass begins and no reload call
\* is started.
C16_NoReloadAfterCancel ==
    [][((reloadPc = "sleep" /\ reloadPc' = "drain") \/ inflight' > inflight)
         => ~ctxDone]_vars

C18_BodyAlwaysClosed == respPc = "done" => bodyClosed

\* C19: a reload call that has been started ends.
C19_DispatchEnds == (reloadPc = "do") ~> (reloadPc # "do")

\* C20: no close of a closed queue and no send on a closed queue, never more
\* than 50 signals queued, and the receive in the drain loop always finds a
\* signal.
C20_ChannelSafety ==
    /\ ~panicked
    /\ reloadCh <= QueueCap
    /\ reloadPc = "recv" => reloadCh > 0

\* the drain loop is about to receive from the queue that Run has closed
C20_Witness == chClosed /\ reloadPc = "recv" /\ runPc = "done"

====
